---- MODULE Spec2Model ----
(***************************************************************************)
(* The authentication screen of oauth-rn-supabase: the Auth component      *)
(* (components/Auth.tsx, duplicated in app/index.tsx) and the AuthDisplay  *)
(* component it renders, as a state machine.                               *)
(*                                                                         *)
(* One action is one run-to-completion piece of JavaScript: an event       *)
(* handler or the continuation of an await, from the point where it is     *)
(* resumed to the next await (or to the end of the async function).  All   *)
(* state updates go through functional updaters (setAuthState(prev =>      *)
(* ...)), so they are applied in program order and the rendered screen is  *)
(* a function of the current authState.                                    *)
(***************************************************************************)
EXTENDS Integers, Sequences, FiniteSets, TLC

(***************************************************************************)
(* Bounds of the model.                                                    *)
(***************************************************************************)
\* number of signInWithGoogle() calls that can be pending at the same time
MaxSignIns == 2
\* open dialogs beyond which the test driver of SpecOp starts no new call
MaxAlerts == 1

(***************************************************************************)
(* Values.                                                                 *)
(***************************************************************************)
\* null / undefined of a string-valued field
Absent == "<absent>"
\* authState.user === null
NoUser == [absent |-> TRUE]
\* no payload held by a pending sign-in
NoGoogle == [absent |-> TRUE]

Platforms == {"android", "ios"}
ClientIds == {Absent, "web-client-id"}

\* statusCodes of the provider SDK, plus a code the switch does not know
SIGN_IN_CANCELLED == "SIGN_IN_CANCELLED"
IN_PROGRESS == "IN_PROGRESS"
PLAY_SERVICES_NOT_AVAILABLE == "PLAY_SERVICES_NOT_AVAILABLE"
KnownCodes == {SIGN_IN_CANCELLED, IN_PROGRESS, PLAY_SERVICES_NOT_AVAILABLE}
Codes == KnownCodes \cup {"OTHER_CODE", Absent}

\* thrown values: an Error instance, another object, or a non-object
NoThrow == [kind |-> "none", code |-> Absent, message |-> Absent]
NewError(msg) == [kind |-> "Error", code |-> Absent, message |-> msg]
ProviderMessages == {"", "native failure"}
ProviderThrows ==
    [kind : {"Error", "object"}, code : Codes, message : ProviderMessages]
        \cup {[kind |-> "other", code |-> Absent, message |-> Absent]}

\* what GoogleSignin.signIn() resolves to
GoogleUsers ==
    { [email |-> "g@x.com", name |-> "Ada Lovelace", photo |-> "photo-url"],
      [email |-> "g@x.com", name |-> Absent, photo |-> Absent] }
SignInResults ==
    {[data |-> FALSE, user |-> NoGoogle, idToken |-> Absent]}
        \cup [data : {TRUE}, user : GoogleUsers, idToken : {Absent, "", "id-token"}]

\* what supabase.auth.signInWithIdToken() resolves to
BackendUsers ==
    { [id |-> "uid-1", email |-> "ada@x.com"], [id |-> "uid-1", email |-> Absent] }
NoBackendUser == [absent |-> TRUE]
BackendMessages == {"invalid token", "token expired"}
ExchangeResults ==
    [error : BackendMessages, user : {NoBackendUser}]
        \cup [error : {Absent}, user : BackendUsers \cup {NoBackendUser}]

\* what supabase.auth.getSession() resolves to: session.user or nothing
SessionUsers ==
    { [id |-> "uid-0", email |-> "ada@x.com", full_name |-> "Ada Lovelace",
       name |-> "Ada", avatar_url |-> Absent, picture |-> "picture-url"],
      [id |-> "uid-0", email |-> Absent, full_name |-> Absent,
       name |-> Absent, avatar_url |-> Absent, picture |-> Absent] }
NoSession == [absent |-> TRUE]

SignOutErrors == {Absent, "network down"}

VARIABLES
    PlatformOS,     \* Platform.OS
    webClientId,    \* process.env.EXPO_PUBLIC_GOOGLE_WEB_CLIENT_ID
    authState,      \* useState<AuthState> of Auth
    mounted,        \* the mount effect of Auth has run
    sessionPc,      \* checkExistingSession: "idle", "pending", "done"
    signIns,        \* the pending signInWithGoogle() calls, by slot
    signOutOp,      \* the pending signOut() call
    isSigningOut,   \* useState of AuthDisplay
    alerts,         \* the open Alert dialogs, the topmost last
    called,         \* the external API functions invoked so far
    profile,        \* what AuthDisplay renders for the user it is given
    ev              \* the step last taken and what it was given

vars == << PlatformOS, webClientId, authState, mounted, sessionPc, signIns,
           signOutOp, isSigningOut, alerts, called, profile, ev >>

Slots == 1..MaxSignIns

(***************************************************************************)
(* Pure parts of the code.                                                 *)
(***************************************************************************)
\* a || b on strings: the empty string and undefined are falsy
Or(a, b) == IF a = Absent \/ a = "" THEN b ELSE a

\* updateAuthState that keeps isConfigured only when it is among the updates
updateAuthState_DropsConfigured(prev, updates) ==
    [k \in DOMAIN prev |->
        IF k \in DOMAIN updates THEN updates[k]
        ELSE IF k = "isConfigured" THEN FALSE ELSE prev[k]]

updateAuthState(prev, updates) ==
    [k \in DOMAIN prev |-> IF k \in DOMAIN updates THEN updates[k] ELSE prev[k]]

\* configureGoogleSignIn without its test of the client id
configureGoogleSignIn_IgnoresMissingId(clientId, configureThrows) == ~configureThrows

\* the return value of configureGoogleSignIn; configure() is reached only
\* with a client id, and its throwing is caught
configureGoogleSignIn(clientId, configureThrows) ==
    IF clientId = Absent THEN FALSE ELSE ~configureThrows

\* sessionUserData without the provider tag
sessionUserData_NoProvider(su) ==
    [id |-> su.id,
     email |-> Or(su.email, ""),
     displayName |-> Or(su.full_name, su.name),
     photoURL |-> Or(su.avatar_url, su.picture),
     provider |-> Absent]

\* the user built from session.user by checkExistingSession
sessionUserData(su) ==
    [id |-> su.id,
     email |-> Or(su.email, ""),
     displayName |-> Or(su.full_name, su.name),
     photoURL |-> Or(su.avatar_url, su.picture),
     provider |-> "google"]

\* signInPrecheck without its configuration check
signInPrecheck_NoConfiguredCheck(os, isConfigured) ==
    IF os # "android"
    THEN NewError("Google Sign-In is currently only available on Android")
    ELSE NoThrow

\* signInPrecheck testing the configuration before the platform
signInPrecheck_ConfiguredFirst(os, isConfigured) ==
    IF ~isConfigured
    THEN NewError("Google Sign-In is not properly configured")
    ELSE IF os # "android"
    THEN NewError("Google Sign-In is currently only available on Android")
    ELSE NoThrow

\* the two checks before the first provider call
signInPrecheck(os, isConfigured) ==
    IF os # "android"
    THEN NewError("Google Sign-In is currently only available on Android")
    ELSE IF ~isConfigured
    THEN NewError("Google Sign-In is not properly configured")
    ELSE NoThrow

\* credentialCheck without its identity-token check
credentialCheck_NoTokenCheck(result) ==
    IF ~result.data THEN NewError("No user data received from Google") ELSE NoThrow

\* credentialCheck testing the token against null only
credentialCheck_NullTokenOnly(result) ==
    IF ~result.data THEN NewError("No user data received from Google")
    ELSE IF result.idToken = Absent
    THEN NewError("No ID token received from Google")
    ELSE NoThrow

\* the checks on what GoogleSignin.signIn() resolved to
credentialCheck(result) ==
    IF ~result.data THEN NewError("No user data received from Google")
    ELSE IF result.idToken = Absent \/ result.idToken = ""
    THEN NewError("No ID token received from Google")
    ELSE NoThrow

\* backendCheck throwing the backend's message as it is
backendCheck_RawMessage(resp) ==
    IF resp.error # Absent
    THEN NewError(resp.error)
    ELSE IF resp.user = NoBackendUser
    THEN NewError("No user data received from Supabase")
    ELSE NoThrow

\* backendCheck without its user check: reading data.user.id of null throws
\* a TypeError
backendCheck_NoUserCheck(resp) ==
    IF resp.error # Absent
    THEN NewError("Supabase authentication failed: " \o resp.error)
    ELSE IF resp.user = NoBackendUser
    THEN NewError("Cannot read properties of null (reading 'id')")
    ELSE NoThrow

\* the checks on what signInWithIdToken() resolved to
backendCheck(resp) ==
    IF resp.error # Absent
    THEN NewError("Supabase authentication failed: " \o resp.error)
    ELSE IF resp.user = NoBackendUser
    THEN NewError("No user data received from Supabase")
    ELSE NoThrow

\* userData without the provider tag
userData_NoProvider(backendUser, googleUser) ==
    [id |-> backendUser.id,
     email |-> Or(backendUser.email, googleUser.email),
     displayName |-> Or(googleUser.name, ""),
     photoURL |-> Or(googleUser.photo, ""),
     provider |-> Absent]

userData(backendUser, googleUser) ==
    [id |-> backendUser.id,
     email |-> Or(backendUser.email, googleUser.email),
     displayName |-> Or(googleUser.name, ""),
     photoURL |-> Or(googleUser.photo, ""),
     provider |-> "google"]

\* errorMessage of the catch block of signInWithGoogle
signInErrorMessage(thrown) ==
    IF thrown.kind = "Error" THEN thrown.message
    ELSE IF thrown.kind = "object"
    THEN CASE thrown.code = SIGN_IN_CANCELLED -> "Sign-in was cancelled"
           [] thrown.code = IN_PROGRESS -> "Sign-in is already in progress"
           [] thrown.code = PLAY_SERVICES_NOT_AVAILABLE ->
                  "Google Play Services is not available"
           [] OTHER -> Or(thrown.message, "Google Sign-In failed")
    ELSE "An unexpected error occurred"

\* signInCatch resetting the user as well
signInCatch_ResetsUser(st, thrown) ==
    updateAuthState(
        updateAuthState(st, [user |-> NoUser, error |-> signInErrorMessage(thrown)]),
        [loading |-> FALSE])

\* signInCatch that does not store the message
signInCatch_NoError(st, thrown) == updateAuthState(st, [loading |-> FALSE])

\* signInCatch without the finally block
signInCatch_StillLoading(st, thrown) ==
    updateAuthState(st, [error |-> signInErrorMessage(thrown)])

\* authState after the catch and finally blocks of signInWithGoogle
signInCatch(st, thrown) ==
    updateAuthState(
        updateAuthState(st, [error |-> signInErrorMessage(thrown)]),
        [loading |-> FALSE])

\* authState after the success path and the finally block of signInWithGoogle
signInCommit(st, backendUser, googleUser) ==
    updateAuthState(
        updateAuthState(st, [user |-> userData(backendUser, googleUser),
                             error |-> Absent]),
        [loading |-> FALSE])

\* authState after the first statement of signInWithGoogle and of signOut
operationEntry(st) == updateAuthState(st, [loading |-> TRUE, error |-> Absent])

\* the Error signOut throws on what supabase.auth.signOut() resolved to
signOutCheck(error) ==
    IF error # Absent THEN NewError("Sign-out failed: " \o error) ELSE NoThrow

signOutErrorMessage(thrown) ==
    IF thrown.kind = "Error" THEN thrown.message ELSE "Sign-out failed"

\* signOutCatch clearing the user although the backend session is kept
signOutCatch_ClearsUser(st, thrown) ==
    updateAuthState(
        updateAuthState(st, [user |-> NoUser, error |-> signOutErrorMessage(thrown)]),
        [loading |-> FALSE])

\* signOut() rethrowing to its caller what its catch block caught
signOutRejection_Rethrows(thrown) == thrown

\* what signOut() rejects with to the handler that awaits it: its catch block
\* handles every thrown value and throws nothing itself
signOutRejection(thrown) == NoThrow

\* authState after the catch and finally blocks of signOut
signOutCatch(st, thrown) ==
    updateAuthState(
        updateAuthState(st, [error |-> signOutErrorMessage(thrown)]),
        [loading |-> FALSE])

\* authState after the success path and the finally block of signOut
signOutCommit(st) ==
    updateAuthState(updateAuthState(st, [user |-> NoUser]), [loading |-> FALSE])

(***************************************************************************)
(* The placeholder initials of AuthDisplay.  Here a string is the sequence *)
(* of its characters, and an undefined string is the sequence Undefined.   *)
(***************************************************************************)
\* longest display name drawn, in characters
MaxNameLen == 4

Undefined == << "<undefined>" >>
Chars == {"a", " "}
AdaLovelace == << "A", "d", "a", " ", "L", "o", "v", "e", "l", "a", "c", "e" >>
DisplayNames ==
    {Undefined, AdaLovelace} \cup UNION {[1..n -> Chars] : n \in 0..MaxNameLen}
Emails == {Undefined, << >>, << "a", "d", "a", "@", "x" >>, << "L", "@", "x" >>}
PhotoURLs == {Undefined, << "p" >>}
NoProfile == [absent |-> TRUE]

\* String.prototype.toUpperCase on the letters in use
Upper(c) ==
    CASE c = "a" -> "A" [] c = "d" -> "D" [] c = "l" -> "L" [] c = "o" -> "O"
      [] c = "v" -> "V" [] c = "e" -> "E" [] c = "c" -> "C" [] OTHER -> c
toUpperCase(s) == [i \in 1..Len(s) |-> Upper(s[i])]

RECURSIVE trimStart(_)
trimStart(s) == IF s # << >> /\ Head(s) = " " THEN trimStart(Tail(s)) ELSE s
RECURSIVE trimEnd(_)
trimEnd(s) ==
    IF s # << >> /\ s[Len(s)] = " " THEN trimEnd(SubSeq(s, 1, Len(s) - 1)) ELSE s
trim(s) == trimEnd(trimStart(s))

\* String.prototype.split(sep): the pieces between the separators, the empty
\* ones included
RECURSIVE split(_, _)
split(s, sep) ==
    IF \A i \in 1..Len(s) : s[i] # sep
    THEN << s >>
    ELSE LET i == CHOOSE j \in 1..Len(s) :
                     s[j] = sep /\ \A k \in 1..(j - 1) : s[k] # sep
         IN  << SubSeq(s, 1, i - 1) >> \o split(SubSeq(s, i + 1, Len(s)), sep)

\* str[0] inside a template literal
FirstChar(s) == IF s = << >> THEN Undefined ELSE << s[1] >>
\* str.charAt(0)
charAt0(s) == IF s = << >> THEN << >> ELSE << s[1] >>

getInitials(name) ==
    IF name = Undefined \/ name = << >>
    THEN << "?" >>
    ELSE LET names == split(trim(name), " ")
         IN  IF Len(names) >= 2
             THEN toUpperCase(FirstChar(names[1]) \o FirstChar(names[Len(names)]))
             ELSE toUpperCase(charAt0(name))

\* the avatar of AuthDisplay: the photo, or the initials of user.displayName
renderAvatar(user) ==
    [displayName |-> user.displayName, email |-> user.email,
     photoURL |-> user.photoURL,
     placeholder |-> user.photoURL = Undefined \/ user.photoURL = << >>,
     initials |-> getInitials(user.displayName)]

(***************************************************************************)
(* What the screen shows.                                                  *)
(***************************************************************************)
\* Auth renders the configuration error text and nothing else
showsConfigError(st) == ~st.isConfigured

\* Auth renders AuthDisplay
showsAuthDisplay(st) == st.isConfigured /\ st.user # NoUser

\* the sign-in button is on screen and not disabled
signInEnabled(st) == st.isConfigured /\ st.user = NoUser /\ ~st.loading

\* the sign-out control of AuthDisplay is on screen and not disabled
\* the sign-out control without its disabled flag
signOutEnabled_IgnoresSigningOut(st, signingOut) == showsAuthDisplay(st)

signOutEnabled(st, signingOut) == showsAuthDisplay(st) /\ ~signingOut

ConfirmDialog == [title |-> "Sign Out", message |-> "Are you sure you want to sign out?"]
SignInFailed(msg) == [title |-> "Sign-In Failed", message |-> msg]
SignOutFailed(msg) == [title |-> "Sign-Out Failed", message |-> msg]
\* the dialog of handleSignOut for a rejected onSignOut()
SignOutError ==
    [title |-> "Sign Out Error",
     message |-> "There was a problem signing you out. Please try again."]

\* a dialog is modal: nothing under it can be pressed
NoDialog == alerts = << >>
TopAlert == alerts[Len(alerts)]
Pop(s) == SubSeq(s, 1, Len(s) - 1)

(***************************************************************************)
(* The state after construction.                                           *)
(***************************************************************************)
IdleSignIn == [pc |-> "idle", calls |-> << >>, google |-> NoGoogle]
IdleSignOut == [pc |-> "idle", calls |-> << >>, failed |-> {}]
\* act: the step; slot: the sign-in call it belongs to (0: none); given: what
\* the awaited call resolved to, or the value it rejected with; thrown: what
\* the step caught; calls: the external calls the operation has made, when
\* the step ends the operation
Event(act, slot, given, thrown, calls) ==
    [act |-> act, slot |-> slot, given |-> given, thrown |-> thrown, calls |-> calls]
NoValue == [absent |-> TRUE]

Init ==
    /\ PlatformOS \in Platforms
    /\ webClientId \in ClientIds
    /\ authState = [user |-> NoUser, loading |-> FALSE, error |-> Absent,
                    isConfigured |-> FALSE]
    /\ mounted = FALSE
    /\ sessionPc = "idle"
    /\ signIns = [s \in Slots |-> IdleSignIn]
    /\ signOutOp = IdleSignOut
    /\ isSigningOut = FALSE
    /\ alerts = << >>
    /\ called = {}
    /\ profile = NoProfile
    /\ ev = Event("init", 0, NoValue, NoThrow, << >>)

(***************************************************************************)
(* The mount effect and session restoration.                               *)
(***************************************************************************)
Mount ==
    /\ ~mounted
    /\ \E configureThrows \in BOOLEAN :
        /\ authState' = updateAuthState(authState,
               [isConfigured |-> configureGoogleSignIn(webClientId, configureThrows)])
        /\ called' = called \cup {"getSession"}
               \cup (IF webClientId # Absent THEN {"configure"} ELSE {})
        /\ ev' = Event("Mount", 0, NoValue, NoThrow, << >>)
    /\ mounted' = TRUE
    /\ sessionPc' = "pending"
    /\ UNCHANGED << profile, PlatformOS, webClientId, signIns, signOutOp, isSigningOut, alerts >>

\* restoreSession that stores the failure of getSession() in error
restoreSession_ReportsFailure(st, su, throws) ==
    IF throws THEN updateAuthState(st, [error |-> "getSession failed"])
    ELSE IF su # NoSession THEN updateAuthState(st, [user |-> sessionUserData(su)])
    ELSE st

\* the state after the try/catch of checkExistingSession: a session's user
\* is stored, a rejection is logged only
restoreSession(st, su, throws) ==
    IF ~throws /\ su # NoSession
    THEN updateAuthState(st, [user |-> sessionUserData(su)])
    ELSE st

\* the continuation of checkExistingSession after getSession()
checkExistingSession ==
    /\ sessionPc = "pending"
    /\ sessionPc' = "done"
    /\ \E su \in SessionUsers \cup {NoSession}, throws \in BOOLEAN :
        /\ authState' = restoreSession(authState, su, throws)
        /\ ev' = Event("checkExistingSession", 0, su,
                       IF throws THEN NewError("getSession failed") ELSE NoThrow, << >>)
    /\ UNCHANGED << profile, PlatformOS, webClientId, mounted, signIns, signOutOp,
                    isSigningOut, alerts, called >>

(***************************************************************************)
(* signInWithGoogle.                                                       *)
(***************************************************************************)
FreeSlots == {s \in Slots : signIns[s].pc = "idle"}
FirstFreeSlot == CHOOSE s \in FreeSlots : \A r \in FreeSlots : s <= r

\* the catch and finally blocks: the call ends, with the failure dialog open
signInFails(s, st, act, given, thrown) ==
    /\ authState' = signInCatch(st, thrown)
    /\ alerts' = Append(alerts, SignInFailed(signInErrorMessage(thrown)))
    /\ signIns' = [signIns EXCEPT ![s] = IdleSignIn]
    /\ called' = called
    /\ ev' = Event(act, s, given, thrown, signIns[s].calls)

\* the call goes on to await the external call api
signInAwaits(s, st, act, given, api, google) ==
    /\ authState' = st
    /\ alerts' = alerts
    /\ signIns' = [signIns EXCEPT ![s] =
           [pc |-> api, calls |-> Append(signIns[s].calls, api), google |-> google]]
    /\ called' = called \cup {api}
    /\ ev' = Event(act, s, given, NoThrow, << >>)

\* signInWithGoogle from its first statement to its first await
signInWithGoogle(s, act) ==
    LET thrown == signInPrecheck(PlatformOS, authState.isConfigured)
    IN  /\ IF thrown # NoThrow
           THEN signInFails(s, operationEntry(authState), act, NoValue, thrown)
           ELSE signInAwaits(s, operationEntry(authState), act, NoValue,
                             "hasPlayServices", NoGoogle)
        /\ UNCHANGED << profile, PlatformOS, webClientId, mounted, sessionPc, signOutOp,
                        isSigningOut >>

\* the sign-in button is pressed
PressSignIn ==
    /\ mounted /\ NoDialog /\ signInEnabled(authState)
    /\ FreeSlots # {}
    /\ signInWithGoogle(FirstFreeSlot, "PressSignIn")

\* after await GoogleSignin.hasPlayServices()
hasPlayServicesReturns(s) ==
    /\ signIns[s].pc = "hasPlayServices"
    /\ \E thrown \in ProviderThrows \cup {NoThrow} :
        IF thrown # NoThrow
        THEN signInFails(s, authState, "hasPlayServicesReturns", thrown, thrown)
        ELSE signInAwaits(s, authState, "hasPlayServicesReturns", NoValue,
                          "providerSignOut", NoGoogle)
    /\ UNCHANGED << profile, PlatformOS, webClientId, mounted, sessionPc, signOutOp,
                    isSigningOut >>

\* after await GoogleSignin.signOut(), the reset before the sign-in
resetReturns(s) ==
    /\ signIns[s].pc = "providerSignOut"
    /\ \E thrown \in ProviderThrows \cup {NoThrow} :
        IF thrown # NoThrow
        THEN signInFails(s, authState, "resetReturns", thrown, thrown)
        ELSE signInAwaits(s, authState, "resetReturns", NoValue,
                          "providerSignIn", NoGoogle)
    /\ UNCHANGED << profile, PlatformOS, webClientId, mounted, sessionPc, signOutOp,
                    isSigningOut >>

\* after await GoogleSignin.signIn()
providerSignInReturns(s) ==
    /\ signIns[s].pc = "providerSignIn"
    /\ \/ \E thrown \in ProviderThrows :
              signInFails(s, authState, "providerSignInReturns", thrown, thrown)
       \/ \E result \in SignInResults :
              IF credentialCheck(result) # NoThrow
              THEN signInFails(s, authState, "providerSignInReturns", result,
                               credentialCheck(result))
              ELSE signInAwaits(s, authState, "providerSignInReturns", result,
                                "signInWithIdToken", result.user)
    /\ UNCHANGED << profile, PlatformOS, webClientId, mounted, sessionPc, signOutOp,
                    isSigningOut >>

\* after await supabase.auth.signInWithIdToken()
exchangeReturns(s) ==
    /\ signIns[s].pc = "signInWithIdToken"
    /\ \E resp \in ExchangeResults :
        IF backendCheck(resp) # NoThrow
        THEN signInFails(s, authState, "exchangeReturns", resp, backendCheck(resp))
        ELSE /\ authState' = signInCommit(authState, resp.user, signIns[s].google)
             /\ signIns' = [signIns EXCEPT ![s] = IdleSignIn]
             /\ ev' = Event("exchangeReturns", s, resp, NoThrow, signIns[s].calls)
             /\ UNCHANGED << alerts, called >>
    /\ UNCHANGED << profile, PlatformOS, webClientId, mounted, sessionPc, signOutOp,
                    isSigningOut >>

(***************************************************************************)
(* AuthDisplay and signOut.                                                *)
(***************************************************************************)
\* the sign-out control wired to handleSignOut, without the confirmation
PressSignOut_NoConfirm ==
    /\ mounted /\ NoDialog /\ signOutEnabled(authState, isSigningOut)
    /\ signOutOp.pc = "idle"
    /\ isSigningOut' = TRUE
    /\ authState' = operationEntry(authState)
    /\ signOutOp' = [pc |-> "providerSignOut", calls |-> << "providerSignOut" >>,
                     failed |-> {}]
    /\ called' = called \cup {"providerSignOut"}
    /\ ev' = Event("PressSignOut", 0, NoValue, NoThrow, << >>)
    /\ UNCHANGED << profile, PlatformOS, webClientId, mounted, sessionPc, signIns,
                    alerts >>

\* confirmSignOut: the sign-out control is pressed
PressSignOut ==
    /\ mounted /\ NoDialog /\ signOutEnabled(authState, isSigningOut)
    /\ alerts' = Append(alerts, ConfirmDialog)
    /\ ev' = Event("PressSignOut", 0, NoValue, NoThrow, << >>)
    /\ UNCHANGED << profile, PlatformOS, webClientId, authState, mounted, sessionPc,
                    signIns, signOutOp, isSigningOut, called >>

\* Cancel of the confirmation dialog
CancelSignOut ==
    /\ alerts # << >> /\ TopAlert = ConfirmDialog
    /\ alerts' = Pop(alerts)
    /\ ev' = Event("CancelSignOut", 0, NoValue, NoThrow, << >>)
    /\ UNCHANGED << profile, PlatformOS, webClientId, authState, mounted, sessionPc,
                    signIns, signOutOp, isSigningOut, called >>

\* "Sign Out" of the confirmation dialog: handleSignOut up to await
\* onSignOut(), which is signOut up to await GoogleSignin.signOut()
handleSignOut ==
    /\ alerts # << >> /\ TopAlert = ConfirmDialog
    /\ signOutOp.pc = "idle"
    /\ alerts' = Pop(alerts)
    /\ isSigningOut' = TRUE
    /\ authState' = operationEntry(authState)
    /\ signOutOp' = [pc |-> "providerSignOut", calls |-> << "providerSignOut" >>,
                     failed |-> {}]
    /\ called' = called \cup {"providerSignOut"}
    /\ ev' = Event("handleSignOut", 0, NoValue, NoThrow, << >>)
    /\ UNCHANGED << profile, PlatformOS, webClientId, mounted, sessionPc, signIns >>

\* after await GoogleSignin.signOut() in signOut: a rejection is only logged
signOutProviderReturns ==
    /\ signOutOp.pc = "providerSignOut"
    /\ \E thrown \in {NoThrow, NewError("native failure")} :
        /\ signOutOp' = [pc |-> "backendSignOut",
                         calls |-> Append(signOutOp.calls, "backendSignOut"),
                         failed |-> IF thrown # NoThrow THEN {"providerSignOut"} ELSE {}]
        /\ ev' = Event("signOutProviderReturns", 0,
                       IF thrown # NoThrow THEN thrown ELSE NoValue, thrown, << >>)
    /\ called' = called \cup {"backendSignOut"}
    /\ UNCHANGED << profile, PlatformOS, webClientId, authState, mounted, sessionPc,
                    signIns, isSigningOut, alerts >>

\* after await supabase.auth.signOut(): the rest of signOut, then the rest
\* of handleSignOut, which awaited it
signOutBackendReturns ==
    /\ signOutOp.pc = "backendSignOut"
    /\ \E error \in SignOutErrors :
        /\ IF signOutCheck(error) # NoThrow
           THEN /\ authState' = signOutCatch(authState, signOutCheck(error))
                /\ alerts' = Append(alerts,
                       SignOutFailed(signOutErrorMessage(signOutCheck(error))))
                     \o (IF signOutRejection(signOutCheck(error)) # NoThrow
                         THEN << SignOutError >> ELSE << >>)
           ELSE /\ authState' = signOutCommit(authState)
                /\ alerts' = alerts
        /\ ev' = Event("signOutBackendReturns", 0, [error |-> error],
                       signOutCheck(error), signOutOp.calls)
    /\ signOutOp' = IdleSignOut
    /\ isSigningOut' = FALSE
    /\ UNCHANGED << profile, PlatformOS, webClientId, mounted, sessionPc, signIns, called >>

\* OK of a failure dialog
DismissAlert ==
    /\ alerts # << >> /\ TopAlert # ConfirmDialog
    /\ alerts' = Pop(alerts)
    /\ ev' = Event("DismissAlert", 0, NoValue, NoThrow, << >>)
    /\ UNCHANGED << profile, PlatformOS, webClientId, authState, mounted, sessionPc,
                    signIns, signOutOp, isSigningOut, called >>

(***************************************************************************)
(* The screen, driven by its user.                                         *)
(***************************************************************************)
Next ==
    \/ Mount
    \/ checkExistingSession
    \/ PressSignIn
    \/ \E s \in Slots : hasPlayServicesReturns(s)
    \/ \E s \in Slots : resetReturns(s)
    \/ \E s \in Slots : providerSignInReturns(s)
    \/ \E s \in Slots : exchangeReturns(s)
    \/ PressSignOut
    \/ CancelSignOut
    \/ handleSignOut
    \/ signOutProviderReturns
    \/ signOutBackendReturns
    \/ DismissAlert

Spec == Init /\ [][Next]_vars

(***************************************************************************)
(* The operations, called by a test driver as well: signInWithGoogle() is  *)
(* invoked on the mounted component whatever the screen shows, whenever    *)
(* no operation is pending.                                                *)
(***************************************************************************)
CallSignIn ==
    /\ mounted /\ Len(alerts) < MaxAlerts
    /\ FreeSlots = Slots /\ signOutOp.pc = "idle"
    /\ signInWithGoogle(FirstFreeSlot, "CallSignIn")

NextOp == Next \/ CallSignIn

SpecOp == Init /\ [][NextOp]_vars

(***************************************************************************)
(* The screen when every external call that was made returns or fails.     *)
(***************************************************************************)
ExternalCallsReturn ==
    /\ \A s \in Slots :
          /\ WF_vars(hasPlayServicesReturns(s))
          /\ WF_vars(resetReturns(s))
          /\ WF_vars(providerSignInReturns(s))
          /\ WF_vars(exchangeReturns(s))
    /\ WF_vars(signOutProviderReturns)
    /\ WF_vars(signOutBackendReturns)

SpecFair == Spec /\ ExternalCallsReturn

(***************************************************************************)
(* AuthDisplay rendered for any user it can be given.                      *)
(***************************************************************************)
RenderProfile ==
    /\ \E displayName \in DisplayNames, email \in Emails, photoURL \in PhotoURLs :
          profile' = renderAvatar([displayName |-> displayName, email |-> email,
                                   photoURL |-> photoURL])
    /\ ev' = Event("RenderProfile", 0, NoValue, NoThrow, << >>)
    /\ UNCHANGED << PlatformOS, webClientId, authState, mounted, sessionPc, signIns,
                    signOutOp, isSigningOut, alerts, called >>

NextRender == RenderProfile

SpecRender == Init /\ [][NextRender]_vars

(***************************************************************************)
(* Sanity of the model.                                                    *)
(***************************************************************************)
TypeOK ==
    /\ PlatformOS \in Platforms /\ webClientId \in ClientIds
    /\ authState.loading \in BOOLEAN /\ authState.isConfigured \in BOOLEAN
    /\ mounted \in BOOLEAN /\ isSigningOut \in BOOLEAN
    /\ sessionPc \in {"idle", "pending", "done"}
    /\ \A s \in Slots : signIns[s].pc \in
           {"idle", "hasPlayServices", "providerSignOut", "providerSignIn",
            "signInWithIdToken"}
    /\ signOutOp.pc \in {"idle", "providerSignOut", "backendSignOut"}

\* the screen never offers a sign-in that MaxSignIns pending calls would
\* block, nor a sign-out while a signOut() is pending
GuardsNeverBlock ==
    /\ (mounted /\ NoDialog /\ signInEnabled(authState)) => FreeSlots # {}
    /\ (alerts # << >> /\ TopAlert = ConfirmDialog) => signOutOp.pc = "idle"

(***************************************************************************)
(* Vocabulary of the claims.                                               *)
(***************************************************************************)
SignInEntryActs == {"PressSignIn", "CallSignIn"}
SignInActs == SignInEntryActs \cup
    {"hasPlayServicesReturns", "resetReturns", "providerSignInReturns",
     "exchangeReturns"}
ProviderReturnActs == {"hasPlayServicesReturns", "resetReturns", "providerSignInReturns"}

NotConfiguredMsg == "Google Sign-In is not properly configured"
UnsupportedPlatformMsg == "Google Sign-In is currently only available on Android"
MissingTokenMsg == "No ID token received from Google"

PendingSignIns == {s \in Slots : signIns[s].pc # "idle"}
PendingCount == Cardinality(PendingSignIns) + (IF signOutOp.pc # "idle" THEN 1 ELSE 0)

\* the step is a signInWithGoogle() entry that ended the call at once,
\* having made no external call
EndedWithoutCall ==
    /\ signIns'[ev'.slot].pc = "idle"
    /\ ev'.calls = << >>
    /\ called' = called

\* the step ends a signInWithGoogle() call on its success path
IsSignInSuccess(e) ==
    /\ e.act = "exchangeReturns"
    /\ e.given.error = Absent
    /\ e.given.user # NoBackendUser

\* the awaited provider call of the step rejected
IsProviderRejection(e) == e.act \in ProviderReturnActs /\ e.given # NoValue /\ e.given = e.thrown

\* GoogleSignin.signIn() resolved with a payload that holds no idToken
IsMissingToken(e) ==
    /\ e.act = "providerSignInReturns"
    /\ e.given # e.thrown
    /\ e.given.data /\ e.given.idToken = Absent

FriendlyMessage(code) ==
    CASE code = SIGN_IN_CANCELLED -> "Sign-in was cancelled"
      [] code = IN_PROGRESS -> "Sign-in is already in progress"
      [] code = PLAY_SERVICES_NOT_AVAILABLE -> "Google Play Services is not available"

(***************************************************************************)
(* C1                                                                      *)
(***************************************************************************)
\* C1, as stated: whenever isConfigured is false and signInWithGoogle() is
\* invoked, on any platform, the call ends without any provider or backend
\* call and error is the NotConfigured message.
C1_NotConfiguredAnyPlatform ==
    [][(ev'.act \in SignInEntryActs /\ ~authState.isConfigured)
          => (EndedWithoutCall /\ authState'.error = NotConfiguredMsg)]_vars

\* C1, amended: whenever isConfigured is false and signInWithGoogle() is
\* invoked, the call ends without any provider or backend call; error is the
\* NotConfigured message on Android and the UnsupportedPlatform message on
\* every other platform.
C1_NotConfiguredByPlatform ==
    [][(ev'.act \in SignInEntryActs /\ ~authState.isConfigured)
          => (/\ EndedWithoutCall
              /\ authState'.error =
                    IF PlatformOS = "android" THEN NotConfiguredMsg
                    ELSE UnsupportedPlatformMsg)]_vars

C1_Witness ==
    /\ ev.act = "CallSignIn" /\ PlatformOS = "android"
    /\ ~authState.isConfigured
    /\ ev.calls = << >> /\ signIns[ev.slot].pc = "idle"
    /\ authState.error = NotConfiguredMsg

(***************************************************************************)
(* C2                                                                      *)
(***************************************************************************)
\* C2: in every reachable state loading is true if and only if a
\* signInWithGoogle() or signOut() call has started and not finished.
C2_LoadingIffPending == authState.loading <=> PendingCount > 0

(***************************************************************************)
(* C3                                                                      *)
(***************************************************************************)
\* C3: at most one signInWithGoogle()/signOut() call is pending, and while
\* one is pending neither the sign-in button nor the sign-out control is
\* enabled.
C3_OneOperationAtATime ==
    /\ PendingCount <= 1
    /\ PendingCount > 0 =>
          (~signInEnabled(authState) /\ ~signOutEnabled(authState, isSigningOut))

(***************************************************************************)
(* C4                                                                      *)
(***************************************************************************)
\* C4: every signInWithGoogle() that completes successfully leaves user
\* present with provider "google" and error absent.
C4_SuccessfulSignIn ==
    [][IsSignInSuccess(ev')
          => (/\ authState'.user # NoUser
              /\ authState'.user.provider = "google"
              /\ authState'.error = Absent)]_vars

C4_Witness ==
    /\ IsSignInSuccess(ev)
    /\ authState.user # NoUser /\ authState.user.provider = "google"
    /\ authState.user.id = ev.given.user.id
    /\ authState.error = Absent

(***************************************************************************)
(* C5                                                                      *)
(***************************************************************************)
\* C5: no step of a signInWithGoogle() call other than the commit on its
\* success path writes user: for every failure kind user is the same after
\* each of the call's state updates as before.
C5_FailedSignInKeepsUser ==
    [][(ev'.act \in SignInActs /\ ~IsSignInSuccess(ev'))
          => authState'.user = authState.user]_vars

\* a sign-in failed while a user was present, and the user is still there
C5_Witness ==
    /\ ev.act \in SignInActs /\ ev.thrown # NoThrow
    /\ authState.user # NoUser
    /\ authState.error = signInErrorMessage(ev.thrown)

(***************************************************************************)
(* C6                                                                      *)
(***************************************************************************)
\* C6: when the backend sign-out succeeds signOut() ends with user absent;
\* when it returns an error signOut() ends with user unchanged, still
\* present, and error 'Sign-out failed: ' followed by the backend message.
C6_SignOutOutcome ==
    [][ev'.act = "signOutBackendReturns"
          => (/\ signOutOp'.pc = "idle"
              /\ IF ev'.given.error = Absent
                 THEN authState'.user = NoUser
                 ELSE /\ authState'.user = authState.user
                      /\ authState'.user # NoUser
                      /\ authState'.error = "Sign-out failed: " \o ev'.given.error)]_vars

C6_Witness ==
    /\ ev.act = "signOutBackendReturns" /\ ev.given.error = "network down"
    /\ authState.user # NoUser
    /\ authState.error = "Sign-out failed: network down"

(***************************************************************************)
(* C7                                                                      *)
(***************************************************************************)
\* C7: if the provider sign-out made as the reset inside signInWithGoogle()
\* rejects, the call goes on to invoke the provider sign-in, error is not
\* set and no failure dialog is opened.
C7_ResetFailureSwallowed ==
    [][(ev'.act = "resetReturns" /\ ev'.given # NoValue)
          => (/\ signIns'[ev'.slot].pc = "providerSignIn"
              /\ authState'.error = authState.error
              /\ alerts' = alerts)]_vars

(***************************************************************************)
(* C8                                                                      *)
(***************************************************************************)
\* C8: in signOut() a rejected provider sign-out never fails the operation:
\* the backend sign-out is still invoked, and if it succeeds the operation
\* ends with user absent, error absent and no failure dialog opened.
C8_ProviderSignOutBestEffort ==
    [][/\ (ev'.act = "signOutProviderReturns" /\ ev'.given # NoValue)
            => (/\ signOutOp'.pc = "backendSignOut"
                /\ alerts' = alerts
                /\ authState' = authState)
       /\ (ev'.act = "signOutBackendReturns"
               /\ "providerSignOut" \in signOutOp.failed
               /\ ev'.given.error = Absent)
            => (/\ authState'.user = NoUser
                /\ authState'.error = Absent
                /\ alerts' = alerts)]_vars

(***************************************************************************)
(* C9                                                                      *)
(***************************************************************************)
\* C9: whenever a provider call inside signInWithGoogle() rejects with an
\* error carrying a known code, error is the fixed string of that code,
\* whatever the error's message and whether or not it is an Error instance;
\* with any other code error is the error's own message.
C9_ProviderCodeMapping ==
    [][(IsProviderRejection(ev') /\ ev'.given.kind \in {"Error", "object"})
          => authState'.error =
                IF ev'.given.code \in KnownCodes
                THEN FriendlyMessage(ev'.given.code)
                ELSE ev'.given.message]_vars

(***************************************************************************)
(* C10                                                                     *)
(***************************************************************************)
\* C10: if the provider sign-in returns a profile but no identity token,
\* signInWithGoogle() ends with error the MissingCredential message, the
\* backend token exchange is never invoked for that attempt, and user
\* stays as it was: absent before the step, absent after it.
C10_MissingToken ==
    [][IsMissingToken(ev')
          => (/\ signIns'[ev'.slot].pc = "idle"
              /\ authState'.error = MissingTokenMsg
              /\ \A i \in 1..Len(ev'.calls) : ev'.calls[i] # "signInWithIdToken"
              /\ called' = called
              /\ authState'.user = authState.user)]_vars

C10_Witness ==
    /\ IsMissingToken(ev)
    /\ authState.user = NoUser
    /\ authState.error = MissingTokenMsg
    /\ ev.calls = << "hasPlayServices", "providerSignOut", "providerSignIn" >>
(***************************************************************************)
(* C11                                                                     *)
(***************************************************************************)
\* signInWithIdToken() resolved with an error
IsBackendRejection(e) == e.act = "exchangeReturns" /\ e.given.error # Absent

\* C11: if the backend rejects the identity token with message m,
\* signInWithGoogle() ends with error exactly 'Supabase authentication
\* failed: ' followed by m, and user stays as it was: absent before the
\* step, absent after it.
C11_BackendRejection ==
    [][IsBackendRejection(ev')
          => (/\ signIns'[ev'.slot].pc = "idle"
              /\ authState'.error = "Supabase authentication failed: " \o ev'.given.error
              /\ authState'.user = authState.user)]_vars

C11_Witness ==
    /\ IsBackendRejection(ev) /\ ev.given.error = "invalid token"
    /\ authState.user = NoUser
    /\ authState.error = "Supabase authentication failed: invalid token"
(***************************************************************************)
(* C12                                                                     *)
(***************************************************************************)
IsToken(t) == t # << >>
\* the tokens of a name: its maximal runs of characters other than spaces
Tokens(s) == SelectSeq(split(s, " "), IsToken)
IsPresent(s) == s # Undefined /\ s # << >>

\* the initials C12 gives for a user; a name of one token gives that token's
\* first letter, once or twice
ClaimedInitials(p) ==
    IF IsPresent(p.displayName)
    THEN LET tk == Tokens(p.displayName)
             first == Upper(tk[1][1])
             last == Upper(tk[Len(tk)][1])
         IN  IF Len(tk) >= 2 THEN {<< first, last >>} ELSE {<< first >>, << first, first >>}
    ELSE IF IsPresent(p.email)
    THEN {toUpperCase(charAt0(split(p.email, "@")[1]))}
    ELSE {<< "?" >>}

\* C12: the initials shown for a user are the upper-cased first characters
\* of the first and last token of displayName when it is present ('Ada
\* Lovelace' gives 'AL'), the upper-cased first letter of the local part of
\* email when displayName is absent or empty and email is present, and '?'
\* only when neither is present.
C12_Initials ==
    (/\ profile # NoProfile
     /\ profile.placeholder
     /\ IsPresent(profile.displayName) => Tokens(profile.displayName) # << >>)
        => profile.initials \in ClaimedInitials(profile)

(***************************************************************************)
(* C13                                                                     *)
(***************************************************************************)
\* C13: when the client id is missing from the environment, in every
\* reachable state isConfigured is false and the configuration-error view is
\* shown (also after a session was restored), neither the sign-in nor the
\* sign-out control is offered, signInWithGoogle() has never been entered
\* and no provider function (configure, hasPlayServices, signIn, signOut)
\* and no backend sign-in or sign-out has been called.
C13_MissingClientId ==
    webClientId = Absent =>
        /\ ~authState.isConfigured
        /\ showsConfigError(authState)
        /\ ~showsAuthDisplay(authState)
        /\ ~signInEnabled(authState)
        /\ ~signOutEnabled(authState, isSigningOut)
        /\ called \subseteq {"getSession"}
        /\ PendingCount = 0
        /\ ev.act \notin SignInActs
        /\ alerts = << >>

C13_Witness ==
    /\ webClientId = Absent
    /\ sessionPc = "done"
    /\ ev.act = "checkExistingSession"
    /\ authState.user # NoUser
    /\ showsConfigError(authState)

(***************************************************************************)
(* C14                                                                     *)
(***************************************************************************)
\* C14: isConfigured is written by the mount effect only, which runs once;
\* no step of session restoration, sign-in or sign-out changes it, and once
\* it is true it is true in every later state.
C14_ConfiguredWrittenOnce ==
    [][/\ ev'.act = "Mount" => ~mounted /\ mounted'
       /\ ev'.act # "Mount" => authState'.isConfigured = authState.isConfigured
       /\ authState.isConfigured => authState'.isConfigured]_vars

C14_Witness ==
    /\ authState.isConfigured
    /\ sessionPc = "done"
    /\ ev.act = "signOutBackendReturns"
    /\ authState.user = NoUser

(***************************************************************************)
(* C15                                                                     *)
(***************************************************************************)
\* the step is the end of a session restoration that found no session
NothingRestored(e) ==
    e.act = "checkExistingSession" /\ (e.thrown # NoThrow \/ e.given = NoSession)

\* C15: when getSession() rejects or returns no session, session
\* restoration changes nothing: the state (user, error, loading) is as before
\* and no dialog is opened; when nothing else has run since the mount, user
\* and error are absent, loading is false, no dialog is open and, if
\* configured, the sign-in control is enabled.
C15_NothingRestored ==
    [][NothingRestored(ev')
          => (/\ authState' = authState
              /\ alerts' = alerts
              /\ signIns' = signIns /\ signOutOp' = signOutOp
              /\ ev.act = "Mount"
                    => (/\ authState'.user = NoUser
                        /\ authState'.error = Absent
                        /\ ~authState'.loading
                        /\ alerts' = << >>
                        /\ authState'.isConfigured => signInEnabled(authState')))]_vars

C15_Witness ==
    /\ ev.act = "checkExistingSession" /\ ev.thrown # NoThrow
    /\ authState.user = NoUser /\ authState.error = Absent /\ ~authState.loading
    /\ alerts = << >>
    /\ authState.isConfigured /\ signInEnabled(authState)

C15_WitnessNoSession ==
    /\ ev.act = "checkExistingSession" /\ ev.thrown = NoThrow /\ ev.given = NoSession
    /\ authState.user = NoUser /\ signInEnabled(authState)

(***************************************************************************)
(* C16                                                                     *)
(***************************************************************************)
IsFailingSignIn(e) == e.act \in SignInActs /\ e.thrown # NoThrow
IsFailingSignOut(e) == e.act = "signOutBackendReturns" /\ e.thrown # NoThrow
IsSignOutSuccess(e) == e.act = "signOutBackendReturns" /\ e.thrown = NoThrow

\* C16: a failing signInWithGoogle() or signOut() ends inside the operation:
\* the step that catches the failure ends the call, leaves error set to a
\* message and opens exactly one dialog, the failure dialog with that same
\* message (signOut() rejecting to handleSignOut would open a second one);
\* the step that ends a successful operation opens no dialog.
C16_FailuresRecovered ==
    [][/\ IsFailingSignIn(ev')
          => (/\ signIns'[ev'.slot].pc = "idle"
              /\ authState'.error # Absent
              /\ alerts' = Append(alerts, [title |-> "Sign-In Failed",
                                           message |-> authState'.error]))
       /\ IsFailingSignOut(ev')
          => (/\ signOutOp'.pc = "idle" /\ ~isSigningOut'
              /\ authState'.error # Absent
              /\ alerts' = Append(alerts, [title |-> "Sign-Out Failed",
                                           message |-> authState'.error]))
       /\ (IsSignInSuccess(ev') \/ IsSignOutSuccess(ev'))
          => alerts' = alerts]_vars

C16_Witness ==
    /\ IsFailingSignOut(ev)
    /\ authState.error = "Sign-out failed: network down"
    /\ alerts = << SignOutFailed("Sign-out failed: network down") >>
    /\ authState.user # NoUser

C16_WitnessSignIn ==
    /\ IsFailingSignIn(ev) /\ ev.act = "providerSignInReturns"
    /\ ev.thrown.kind = "object"
    /\ alerts = << SignInFailed(authState.error) >>

(***************************************************************************)
(* C17                                                                     *)
(***************************************************************************)
\* C17: isSigningOut of AuthDisplay is true exactly while the onSignOut()
\* call made by handleSignOut is pending: handleSignOut sets it in the step
\* in which it calls onSignOut(), the step in which that call settles resets
\* it, whether the backend sign-out succeeded or failed, and the sign-out
\* control is disabled whenever it is true.
C17_SigningOutFlag ==
    [][/\ isSigningOut' <=> signOutOp'.pc # "idle"
       /\ isSigningOut' => ~signOutEnabled(authState', isSigningOut')
       /\ ev'.act = "handleSignOut"
            => ~isSigningOut /\ isSigningOut' /\ signOutOp.pc = "idle"
       /\ ev'.act = "signOutBackendReturns" => isSigningOut /\ ~isSigningOut']_vars

C17_Witness ==
    /\ isSigningOut
    /\ signOutOp.pc = "backendSignOut"
    /\ showsAuthDisplay(authState)
    /\ ~signOutEnabled(authState, isSigningOut)

C17_WitnessReset ==
    /\ ev.act = "signOutBackendReturns" /\ ev.thrown # NoThrow
    /\ ~isSigningOut
    /\ signOutEnabled(authState, isSigningOut)

(***************************************************************************)
(* C18                                                                     *)
(***************************************************************************)
SignInApis == {"hasPlayServices", "providerSignIn", "signInWithIdToken"}

\* C18: on a platform other than Android every signInWithGoogle() ends in
\* its first step with error 'Google Sign-In is currently only available on
\* Android', shown in the failure dialog, having made no provider and no
\* backend call, whether isConfigured is true or false; no call of the
\* sign-in flow is ever made on such a platform.
C18_UnsupportedPlatform ==
    [][/\ (ev'.act \in SignInEntryActs /\ PlatformOS # "android")
          => (/\ EndedWithoutCall
              /\ ev'.thrown = NewError(UnsupportedPlatformMsg)
              /\ authState'.error = UnsupportedPlatformMsg
              /\ alerts' = Append(alerts, SignInFailed(UnsupportedPlatformMsg)))
       /\ PlatformOS' # "android"
          => (called' \cap SignInApis = {} /\ PendingSignIns' = {})]_vars

C18_Witness ==
    /\ PlatformOS = "ios"
    /\ ev.act = "PressSignIn"
    /\ authState.isConfigured
    /\ authState.error = UnsupportedPlatformMsg
    /\ ev.calls = << >> /\ signIns[ev.slot].pc = "idle"

C18_WitnessNotConfigured ==
    /\ PlatformOS = "ios"
    /\ ev.act = "CallSignIn"
    /\ ~authState.isConfigured
    /\ authState.error = UnsupportedPlatformMsg

(***************************************************************************)
(* C19                                                                     *)
(***************************************************************************)
SignInCallOrder ==
    << "hasPlayServices", "providerSignOut", "providerSignIn", "signInWithIdToken" >>
IsPrefix(c, full) == Len(c) <= Len(full) /\ c = SubSeq(full, 1, Len(c))

\* the step makes an external call for the sign-in call in slot s
MakesCall(s) == signIns'[s].calls # signIns[s].calls /\ signIns'[s].calls # << >>
\* the external call it makes
CallMade(s) == signIns'[s].calls[Len(signIns'[s].calls)]

\* C19: within one signInWithGoogle() the external calls are made in the
\* order hasPlayServices, provider sign-out, provider sign-in, token
\* exchange, each at most once; the provider sign-out and sign-in follow a
\* hasPlayServices that returned without throwing, the token exchange
\* follows a provider sign-in that returned a non-empty idToken, and a step
\* of the call writes user only when the token exchange, the last of the
\* four calls, returned a user and no error.
C19_CallOrder ==
    [][/\ \A s \in Slots :
            /\ IsPrefix(signIns'[s].calls, SignInCallOrder)
            /\ MakesCall(s)
                 => (/\ signIns'[s].calls = Append(signIns[s].calls, CallMade(s))
                     /\ ev'.slot = s /\ ev'.thrown = NoThrow
                     /\ signIns'[s].pc = CallMade(s)
                     /\ CallMade(s) = "hasPlayServices" => ev'.act \in SignInEntryActs
                     /\ CallMade(s) = "providerSignOut"
                          => ev'.act = "hasPlayServicesReturns"
                     /\ CallMade(s) = "providerSignIn" => ev'.act = "resetReturns"
                     /\ CallMade(s) = "signInWithIdToken"
                          => (/\ ev'.act = "providerSignInReturns"
                              /\ ev'.given.data
                              /\ ev'.given.idToken \notin {Absent, ""}))
       /\ (ev'.act \in SignInActs /\ authState'.user # authState.user)
            => (/\ IsSignInSuccess(ev')
                /\ ev'.calls = SignInCallOrder
                /\ authState'.user # NoUser)
       /\ (ev'.act \in SignInActs /\ signIns'[ev'.slot].pc = "idle")
            => IsPrefix(ev'.calls, SignInCallOrder)]_vars

C19_Witness ==
    /\ IsSignInSuccess(ev)
    /\ ev.calls = SignInCallOrder
    /\ authState.user # NoUser
    /\ called = {"configure", "getSession"} \cup
                 {SignInCallOrder[i] : i \in 1..Len(SignInCallOrder)}

C19_WitnessEmptyToken ==
    /\ ev.act = "providerSignInReturns" /\ ev.given # ev.thrown
    /\ ev.given.data /\ ev.given.idToken = ""
    /\ ev.calls = << "hasPlayServices", "providerSignOut", "providerSignIn" >>
    /\ "signInWithIdToken" \notin called

(***************************************************************************)
(* C20                                                                     *)
(***************************************************************************)
\* the control of the operation that can be retried: sign-in when no user is
\* present, sign-out when one is
ControlEnabled ==
    IF authState.user = NoUser
    THEN signInEnabled(authState)
    ELSE signOutEnabled(authState, isSigningOut)

\* the last step ended a signInWithGoogle() or a signOut() call
OperationEnded ==
    \/ ev.act \in SignInActs /\ signIns[ev.slot].pc = "idle"
    \/ ev.act = "signOutBackendReturns"

\* C20: when every external call returns or fails, every started
\* signInWithGoogle() and every started signOut() finishes, and a state
\* follows in which loading is false and the control for the next attempt
\* (sign-in without a user, sign-out with one) is enabled.
C20_OperationsFinish ==
    /\ \A s \in Slots : (signIns[s].pc # "idle") ~> (signIns[s].pc = "idle")
    /\ (signOutOp.pc # "idle") ~> (signOutOp.pc = "idle" /\ ~isSigningOut)
    /\ OperationEnded ~> (~authState.loading /\ ControlEnabled)

C20_Witness ==
    /\ ev.act = "exchangeReturns" /\ ev.thrown # NoThrow
    /\ PendingCount = 0
    /\ ~authState.loading
    /\ authState.user = NoUser /\ signInEnabled(authState)

C20_WitnessSignOut ==
    /\ ev.act = "signOutBackendReturns" /\ ev.thrown # NoThrow
    /\ PendingCount = 0
    /\ ~authState.loading
    /\ authState.user # NoUser /\ signOutEnabled(authState, isSigningOut)

(***************************************************************************)
(* C21                                                                     *)
(***************************************************************************)
MissingBackendUserMsg == "No user data received from Supabase"

\* signInWithIdToken() resolved with neither an error nor a user
IsMissingBackendUser(e) ==
    /\ e.act = "exchangeReturns"
    /\ e.given.error = Absent /\ e.given.user = NoBackendUser

\* C21: if the token exchange returns neither an error nor a user,
\* signInWithGoogle() ends with error 'No user data received from Supabase',
\* shown in the failure dialog, and user is not written.
C21_MissingBackendUser ==
    [][IsMissingBackendUser(ev')
          => (/\ signIns'[ev'.slot].pc = "idle"
              /\ ev'.thrown = NewError(MissingBackendUserMsg)
              /\ authState'.error = MissingBackendUserMsg
              /\ alerts' = Append(alerts, SignInFailed(MissingBackendUserMsg))
              /\ authState'.user = authState.user)]_vars

C21_Witness ==
    /\ IsMissingBackendUser(ev)
    /\ ev.calls = SignInCallOrder
    /\ authState.user = NoUser
    /\ authState.error = MissingBackendUserMsg
    /\ ~authState.loading

(***************************************************************************)
(* C22                                                                     *)
(***************************************************************************)
\* the step leaves authState, isSigningOut and every operation as they are,
\* and makes no external call
NothingStarted ==
    /\ authState' = authState /\ isSigningOut' = isSigningOut
    /\ signOutOp' = signOutOp /\ signIns' = signIns
    /\ called' = called

\* C22: signOut() is started only by the 'Sign Out' button of the
\* confirmation dialog, which the press of the sign-out control opens;
\* the press itself, and Cancel in the dialog, make no provider or backend
\* call and leave authState and isSigningOut unchanged, and Cancel closes
\* the dialog.
C22_SignOutConfirmed ==
    [][/\ (signOutOp.pc = "idle" /\ signOutOp'.pc # "idle")
          => (/\ ev'.act = "handleSignOut"
              /\ alerts # << >> /\ TopAlert = ConfirmDialog
              /\ alerts' = Pop(alerts))
       /\ ev'.act = "PressSignOut"
          => (NothingStarted /\ alerts' = Append(alerts, ConfirmDialog))
       /\ ev'.act = "CancelSignOut"
          => (/\ NothingStarted
              /\ alerts # << >> /\ TopAlert = ConfirmDialog
              /\ alerts' = Pop(alerts))]_vars

\* the dialog was cancelled: the user is still signed in, nothing was called
C22_Witness ==
    /\ ev.act = "CancelSignOut"
    /\ authState.user # NoUser /\ ~isSigningOut /\ signOutOp.pc = "idle"
    /\ alerts = << >>
    /\ called \cap {"providerSignOut", "backendSignOut"} = {}

(***************************************************************************)
(* C23                                                                     *)
(***************************************************************************)
\* a signInWithGoogle() has committed a user that is still present
SignInCommitted == authState.user # NoUser /\ sessionPc = "pending"
\* a signOut() has ended and has set user to absent
SignOutCommitted ==
    /\ authState.user = NoUser /\ sessionPc = "pending"
    /\ "backendSignOut" \in called /\ signOutOp.pc = "idle"

\* C23: once a signInWithGoogle() has committed a user or a signOut() has
\* set user to absent, a result of session restoration that arrives
\* afterwards does not write user: it neither replaces the signed-in user
\* nor puts a user back after the sign-out.
C23_RestorationKeepsUser ==
    [][(ev'.act = "checkExistingSession" /\ (SignInCommitted \/ SignOutCommitted))
          => authState'.user = authState.user]_vars

(***************************************************************************)
(* C24                                                                     *)
(***************************************************************************)
Titles(as) == {as[i].title : i \in 1..Len(as)}

\* C24: with signOut as onSignOut the catch branch of handleSignOut is never
\* taken: the 'Sign Out Error' dialog is never open, the step that ends a
\* failed signOut() opens exactly one dialog, 'Sign-Out Failed', the step
\* that ends a successful one opens none, and a rejection of the provider
\* sign-out opens none; in each case handleSignOut goes on to its finally
\* block.
C24_NoSignOutErrorDialog ==
    [][/\ "Sign Out Error" \notin Titles(alerts')
       /\ IsFailingSignOut(ev')
          => (/\ Len(alerts') = Len(alerts) + 1
              /\ alerts'[Len(alerts')].title = "Sign-Out Failed"
              /\ SubSeq(alerts', 1, Len(alerts)) = alerts
              /\ ~isSigningOut')
       /\ IsSignOutSuccess(ev') => (alerts' = alerts /\ ~isSigningOut')
       /\ ev'.act = "signOutProviderReturns" => alerts' = alerts]_vars

C24_Witness ==
    /\ IsFailingSignOut(ev)
    /\ Len(alerts) = 1 /\ Titles(alerts) = {"Sign-Out Failed"}
    /\ ~isSigningOut /\ signOutOp.pc = "idle"
    /\ authState.user # NoUser

(***************************************************************************)
(* C25                                                                     *)
(***************************************************************************)
OperationActs == SignInActs \cup {"handleSignOut", "signOutProviderReturns",
                                  "signOutBackendReturns"}
\* the step enters signInWithGoogle() or signOut() and reaches its first await
IsEntry(e) ==
    \/ e.act \in SignInEntryActs /\ e.thrown = NoThrow
    \/ e.act = "handleSignOut"

\* C25: signInWithGoogle() and signOut() set error to absent and loading to
\* true at entry; only a failing operation sets error, to its message, and
\* no step outside the two operations writes it; so the step that ends a
\* successful operation leaves error absent, and in a state with no
\* operation pending an error is the message of the operation that ended
\* last.
C25_ErrorOfLastOperation ==
    [][/\ IsEntry(ev') => (authState'.error = Absent /\ authState'.loading)
       /\ (IsSignInSuccess(ev') \/ IsSignOutSuccess(ev')) => authState'.error = Absent
       /\ (IsFailingSignIn(ev') \/ IsFailingSignOut(ev')) => authState'.error # Absent
       /\ ev'.act \notin OperationActs => authState'.error = authState.error]_vars

(***************************************************************************)
(* C26                                                                     *)
(***************************************************************************)
\* C26: in every reachable state a present user has provider 'google'; a
\* step that writes a present user is the end of a session restoration that
\* found a session or the end of a successful signInWithGoogle(), and the
\* user's id is the id of the backend record that step received.
C26_PresentUser ==
    [][/\ authState'.user # NoUser => authState'.user.provider = "google"
       /\ (authState'.user # NoUser /\ authState'.user # authState.user)
          => \/ /\ ev'.act = "checkExistingSession"
                /\ ev'.thrown = NoThrow /\ ev'.given # NoSession
                /\ authState'.user.id = ev'.given.id
             \/ /\ IsSignInSuccess(ev')
                /\ authState'.user.id = ev'.given.user.id]_vars

C26_Witness ==
    /\ ev.act = "checkExistingSession" /\ ev.given # NoSession
    /\ authState.user # NoUser
    /\ authState.user.provider = "google" /\ authState.user.id = ev.given.id

C26_WitnessSignIn ==
    /\ IsSignInSuccess(ev)
    /\ authState.user # NoUser
    /\ authState.user.provider = "google" /\ authState.user.id = ev.given.user.id
====
